---------------------------- MODULE Spec2Model ----------------------------
(***************************************************************************)
(* Model of pyrdf2vec/samplers/frequency.py: the three frequency samplers  *)
(* ObjFreqSampler, PredFreqSampler and ObjPredFreqSampler.  Each owns a    *)
(* table _counts, a defaultdict whose factory is dict, filled by fit(kg)   *)
(* and read by get_weight(hop).                                            *)
(*                                                                         *)
(* A knowledge graph is the sequence kg._vertices in iteration order.  A   *)
(* vertex is a record [name, predicate, nbrs]; nbrs is the list of names   *)
(* of a predicate vertex's forward neighbours in the order the graph       *)
(* yields them.  A vertex occurrence is identified by its position.        *)
(*                                                                         *)
(* Each fit loop looks at the vertices of one kind only (line 44, 95,     *)
(* 150), and ObjFreqSampler.fit assigns to one key per entity, so only the *)
(* relative order of the predicate vertices can show in a table.  The      *)
(* graphs given to fit therefore list the entity vertices first, in name   *)
(* order, and then the predicate vertices in every order.                  *)
(***************************************************************************)
EXTENDS Integers, Sequences, FiniteSets

\* ------------------------------------------------------------------ bounds
MaxVertices == 3
\* fit calls per instance: under Spec, and under SpecRefit
MaxFits == 1
MaxRefits == 2

EntList == <<"A", "B">>
Ents == {EntList[i] : i \in 1..Len(EntList)}
Preds == {"p", "q"}
Samplers == {"ObjFreqSampler", "PredFreqSampler", "ObjPredFreqSampler"}

\* ------------------------------------------------------------------ values
\* A value held in _counts: an int, or the {} the defaultdict's factory makes.
IntVal(n) == [tag |-> "int", n |-> n]
EmptyDict == [tag |-> "dict", n |-> 0]
None == [tag |-> "none", n |-> 0]

\* The exception get_weight raises on an empty table, and the one int
\* arithmetic on a dict raises.
NotFittedError == "ValueError"
TypeError == "TypeError"
\* The error the specification asks for on an unseen key; the code never raises it.
UnseenKeyError == "UnseenKeyError"

EmptyTable == << >>
NoHop == <<"-", "-">>

\* dict.__setitem__
SetItem(c, k, v) == [x \in (DOMAIN c) \cup {k} |-> IF x = k THEN v ELSE c[x]]

\* defaultdict(dict).__getitem__: a missing key is inserted with the
\* factory's value, which is then returned.
GetItem(c, k) ==
    IF k \in DOMAIN c
    THEN [counts |-> c, status |-> "ok", value |-> c[k]]
    ELSE [counts |-> SetItem(c, k, EmptyDict), status |-> "ok", value |-> EmptyDict]

\* ------------------------------------------------------------------ graphs
EntityVertices == {[name |-> e, predicate |-> FALSE, nbrs |-> << >>] : e \in Ents}
\* list(set of vertices): no neighbour occurs twice.
NbrLists == {<< >>} \cup {<<e>> : e \in Ents}
              \cup {l \in Ents \X Ents : l[1] # l[2]}
PredVertices == {[name |-> p, predicate |-> TRUE, nbrs |-> l] : p \in Preds, l \in NbrLists}
Vertices == EntityVertices \cup PredVertices

\* Entity vertices are unique by name, and every neighbour is a vertex of the graph.
WellFormed(g) ==
    /\ \A i, j \in 1..Len(g) :
         (i # j /\ ~g[i].predicate /\ ~g[j].predicate) => g[i].name # g[j].name
    /\ \A i \in 1..Len(g) : \A k \in 1..Len(g[i].nbrs) :
         \E j \in 1..Len(g) : ~g[j].predicate /\ g[j].name = g[i].nbrs[k]
\* Entity vertices come first, in the order of EntList.
EntRank(e) == CHOOSE i \in 1..Len(EntList) : EntList[i] = e
EntitiesFirst(g) ==
    \A i, j \in 1..Len(g) :
        (i < j /\ ~g[j].predicate) =>
            ~g[i].predicate /\ EntRank(g[i].name) < EntRank(g[j].name)
\* The graphs fit is given (a union of singletons, so that the set is
\* enumerated once).
KGs == UNION {{g} : g \in {h \in UNION {[1..n -> Vertices] : n \in 0..MaxVertices} :
                              WellFormed(h) /\ EntitiesFirst(h)}}

\* kg.get_neighbors(vertex, is_reverse): the forward neighbours of vertex i as
\* a list of names, or the set of the vertices with an edge into vertex i.
get_neighbors(kg, i, is_reverse) ==
    IF is_reverse
    THEN {j \in 1..Len(kg) :
            kg[j].predicate /\ \E k \in 1..Len(kg[j].nbrs) : kg[j].nbrs[k] = kg[i].name}
    ELSE kg[i].nbrs

\* Sampler.fit, the base class's part of fit: it leaves _counts alone.
SamplerFit(c, kg) == c

\* ------------------------------------------------------------ ObjFreqSampler
\* The body of fit's loop for vertex i.
ObjVisitForward(c, kg, i) ==
    IF ~kg[i].predicate
    THEN SetItem(c, kg[i].name, IntVal(Len(get_neighbors(kg, i, FALSE))))
    ELSE c
ObjVisitSkipZero(c, kg, i) ==
    IF ~kg[i].predicate /\ Cardinality(get_neighbors(kg, i, TRUE)) > 0
    THEN SetItem(c, kg[i].name, IntVal(Cardinality(get_neighbors(kg, i, TRUE))))
    ELSE c
ObjFreqSampler_visit(c, kg, i) ==
    IF ~kg[i].predicate
    THEN SetItem(c, kg[i].name, IntVal(Cardinality(get_neighbors(kg, i, TRUE))))
    ELSE c

RECURSIVE ObjFreqSampler_loop(_, _, _)
ObjFreqSampler_loop(c, kg, i) ==
    IF i > Len(kg)
    THEN [counts |-> c, status |-> "ok"]
    ELSE ObjFreqSampler_loop(ObjFreqSampler_visit(c, kg, i), kg, i + 1)

ObjFreqSampler_fit(c, kg) == ObjFreqSampler_loop(SamplerFit(c, kg), kg, 1)

ObjGetWeightNoCheck(c, hop) == GetItem(c, hop[2])
ObjFreqSampler_get_weight(c, hop) ==
    IF Cardinality(DOMAIN c) = 0
    THEN [counts |-> c, status |-> NotFittedError, value |-> None]
    ELSE GetItem(c, hop[2])

\* ----------------------------------------------------------- PredFreqSampler
\* The body of fit's loop for vertex i; += on a {} value raises TypeError
\* and leaves the table as it is.
PredVisitAssignOne(c, kg, i) ==
    IF kg[i].predicate
    THEN [counts |-> SetItem(c, kg[i].name, IntVal(1)), status |-> "ok"]
    ELSE [counts |-> c, status |-> "ok"]
PredFreqSampler_visit(c, kg, i) ==
    IF kg[i].predicate
    THEN IF kg[i].name \in DOMAIN c
         THEN IF c[kg[i].name].tag = "int"
              THEN [counts |-> SetItem(c, kg[i].name, IntVal(c[kg[i].name].n + 1)),
                    status |-> "ok"]
              ELSE [counts |-> c, status |-> TypeError]
         ELSE [counts |-> SetItem(c, kg[i].name, IntVal(1)), status |-> "ok"]
    ELSE [counts |-> c, status |-> "ok"]

RECURSIVE PredFreqSampler_loop(_, _, _)
PredFreqSampler_loop(c, kg, i) ==
    IF i > Len(kg)
    THEN [counts |-> c, status |-> "ok"]
    ELSE LET r == PredFreqSampler_visit(c, kg, i)
         IN  IF r.status = "ok" THEN PredFreqSampler_loop(r.counts, kg, i + 1) ELSE r

PredFreqSampler_fit(c, kg) == PredFreqSampler_loop(SamplerFit(c, kg), kg, 1)

PredGetWeightNoCheck(c, hop) == GetItem(c, hop[1])
PredFreqSampler_get_weight(c, hop) ==
    IF Cardinality(DOMAIN c) = 0
    THEN [counts |-> c, status |-> NotFittedError, value |-> None]
    ELSE GetItem(c, hop[1])

\* -------------------------------------------------------- ObjPredFreqSampler
ObjPredVisitLast(c, kg, i) ==
    IF kg[i].predicate /\ Len(get_neighbors(kg, i, FALSE)) > 0
    THEN LET neighbors == get_neighbors(kg, i, FALSE)
             key == <<kg[i].name, neighbors[Len(neighbors)]>>
         IN  IF key \in DOMAIN c
             THEN IF c[key].tag = "int"
                  THEN [counts |-> SetItem(c, key, IntVal(c[key].n + 1)), status |-> "ok"]
                  ELSE [counts |-> c, status |-> TypeError]
             ELSE [counts |-> SetItem(c, key, IntVal(1)), status |-> "ok"]
    ELSE [counts |-> c, status |-> "ok"]
ObjPredFreqSampler_visit(c, kg, i) ==
    IF kg[i].predicate /\ Len(get_neighbors(kg, i, FALSE)) > 0
    THEN LET neighbors == get_neighbors(kg, i, FALSE)
             key == <<kg[i].name, neighbors[1]>>
         IN  IF key \in DOMAIN c
             THEN IF c[key].tag = "int"
                  THEN [counts |-> SetItem(c, key, IntVal(c[key].n + 1)), status |-> "ok"]
                  ELSE [counts |-> c, status |-> TypeError]
             ELSE [counts |-> SetItem(c, key, IntVal(1)), status |-> "ok"]
    ELSE [counts |-> c, status |-> "ok"]

RECURSIVE ObjPredFreqSampler_loop(_, _, _)
ObjPredFreqSampler_loop(c, kg, i) ==
    IF i > Len(kg)
    THEN [counts |-> c, status |-> "ok"]
    ELSE LET r == ObjPredFreqSampler_visit(c, kg, i)
         IN  IF r.status = "ok" THEN ObjPredFreqSampler_loop(r.counts, kg, i + 1) ELSE r

ObjPredFreqSampler_fit(c, kg) == ObjPredFreqSampler_loop(SamplerFit(c, kg), kg, 1)

ObjPredFreqSampler_get_weight(c, hop) ==
    IF Cardinality(DOMAIN c) = 0
    THEN [counts |-> c, status |-> NotFittedError, value |-> None]
    ELSE GetItem(c, <<hop[1], hop[2]>>)

\* ------------------------------------------------------------------- state
VARIABLES
    sampler,    \* the class of the instance
    counts,     \* self._counts
    kg,         \* the argument of the most recent fit call
    fitCalls,   \* the number of fit calls made on the instance
    fitOk,      \* the most recent fit call returned normally
    outcome     \* the most recent call: what it was given and how it ended

vars == <<sampler, counts, kg, fitCalls, fitOk, outcome>>

Hops == Preds \X Ents

Init ==
    /\ sampler \in Samplers
    /\ counts = EmptyTable
    /\ kg = << >>
    /\ fitCalls = 0
    /\ fitOk = FALSE
    /\ outcome = [op |-> "init", prev |-> "init", status |-> "ok",
                  value |-> None, hop |-> NoHop]

\* What a fit call that ended as r leaves behind.
Fitted(g, r) ==
    /\ counts' = r.counts
    /\ kg' = g
    /\ fitCalls' = fitCalls + 1
    /\ fitOk' = (r.status = "ok")
    /\ outcome' = [op |-> "fit", prev |-> outcome.op, status |-> r.status,
                   value |-> None, hop |-> NoHop]
    /\ UNCHANGED sampler

\* What a get_weight call that ended as r leaves behind.
Weighed(hop, r) ==
    /\ counts' = r.counts
    /\ outcome' = [op |-> "get_weight", prev |-> outcome.op, status |-> r.status,
                   value |-> r.value, hop |-> hop]
    /\ UNCHANGED <<sampler, kg, fitCalls, fitOk>>

\* fit(kg) on the instance, while it has had fewer than limit fit calls.
ObjFit(limit) ==
    /\ sampler = "ObjFreqSampler"
    /\ fitCalls < limit
    /\ \E g \in KGs : Fitted(g, ObjFreqSampler_fit(counts, g))

ObjGetWeight ==
    /\ sampler = "ObjFreqSampler"
    /\ \E hop \in Hops : Weighed(hop, ObjFreqSampler_get_weight(counts, hop))

PredFit(limit) ==
    /\ sampler = "PredFreqSampler"
    /\ fitCalls < limit
    /\ \E g \in KGs : Fitted(g, PredFreqSampler_fit(counts, g))

PredGetWeight ==
    /\ sampler = "PredFreqSampler"
    /\ \E hop \in Hops : Weighed(hop, PredFreqSampler_get_weight(counts, hop))

ObjPredFit(limit) ==
    /\ sampler = "ObjPredFreqSampler"
    /\ fitCalls < limit
    /\ \E g \in KGs : Fitted(g, ObjPredFreqSampler_fit(counts, g))

ObjPredGetWeight ==
    /\ sampler = "ObjPredFreqSampler"
    /\ \E hop \in Hops : Weighed(hop, ObjPredFreqSampler_get_weight(counts, hop))

\* A fresh instance, fitted at most MaxFits times.
Next ==
    \/ ObjFit(MaxFits)
    \/ ObjGetWeight
    \/ PredFit(MaxFits)
    \/ PredGetWeight
    \/ ObjPredFit(MaxFits)
    \/ ObjPredGetWeight

Spec == Init /\ [][Next]_vars

\* An instance that is fitted again, up to MaxRefits times in all.
NextRefit ==
    \/ ObjFit(MaxRefits)
    \/ ObjGetWeight
    \/ PredFit(MaxRefits)
    \/ PredGetWeight
    \/ ObjPredFit(MaxRefits)
    \/ ObjPredGetWeight

SpecRefit == Init /\ [][NextRefit]_vars

\* ---------------------------------------------------------------- the graph
\* What the graph itself says, counted over its vertex occurrences.
NbrNames(g, j) == {g[j].nbrs[k] : k \in 1..Len(g[j].nbrs)}

\* The entity named v is a vertex of g.
IsEntityOf(g, v) == \E i \in 1..Len(g) : ~g[i].predicate /\ g[i].name = v
\* The predicate name n is used in g.
IsPredicateOf(g, n) == \E i \in 1..Len(g) : g[i].predicate /\ g[i].name = n

\* The number of distinct edges of g that terminate at the entity named v.
InDegree(g, v) ==
    Cardinality({j \in 1..Len(g) : g[j].predicate /\ v \in NbrNames(g, j)})
\* The number of edge instances of g that use the predicate name n.
EdgeInstances(g, n) ==
    Cardinality({j \in 1..Len(g) : g[j].predicate /\ g[j].name = n})
\* The number of predicate vertices of g named n whose first forward
\* neighbour is named o.
PairInstances(g, n, o) ==
    Cardinality({j \in 1..Len(g) :
        g[j].predicate /\ g[j].name = n /\ g[j].nbrs # << >> /\ Head(g[j].nbrs) = o})

\* The keys the strategy s keys on that are present in g.
KeysOf(s, g) ==
    IF s = "ObjFreqSampler"
    THEN {g[i].name : i \in {j \in 1..Len(g) : ~g[j].predicate}}
    ELSE IF s = "PredFreqSampler"
    THEN {g[i].name : i \in {j \in 1..Len(g) : g[j].predicate}}
    ELSE {<<g[i].name, Head(g[i].nbrs)>> :
            i \in {j \in 1..Len(g) : g[j].predicate /\ g[j].nbrs # << >>}}

\* The key of a hop under the strategy s.
KeyOf(s, hop) ==
    IF s = "ObjFreqSampler" THEN hop[2]
    ELSE IF s = "PredFreqSampler" THEN hop[1]
    ELSE <<hop[1], hop[2]>>

\* The table a fresh instance of class s has after fit(g).
FreshFit(s, g) ==
    IF s = "ObjFreqSampler" THEN ObjFreqSampler_fit(EmptyTable, g)
    ELSE IF s = "PredFreqSampler" THEN PredFreqSampler_fit(EmptyTable, g)
    ELSE ObjPredFreqSampler_fit(EmptyTable, g)

\* The most recent call was get_weight, on an instance fitted exactly once.
WeighedAfterOneFit == fitCalls = 1 /\ outcome.op = "get_weight"

\* ------------------------------------------------------------------- claims

\* C1: on an instance on which fit has never been called, every get_weight
\* call ends in the not-fitted error and returns no weight, and the table is
\* still empty after it, however many such calls came before.
C1_UnfittedGetWeightFails ==
    fitCalls = 0 =>
        /\ counts = EmptyTable
        /\ outcome.op = "get_weight" =>
              outcome.status = NotFittedError /\ outcome.value = None
\* Two get_weight calls in a row on a never fitted instance.
C1_Witness ==
    /\ fitCalls = 0
    /\ outcome.op = "get_weight"
    /\ outcome.prev = "get_weight"
    /\ outcome.status = NotFittedError

\* C2: after a fit that recorded keys, get_weight on a hop whose key is not
\* in the table ends in the unseen-key error and returns no weight.
C2_UnseenKeyRaises ==
    [][(fitCalls' = fitCalls /\ counts # EmptyTable
          /\ KeyOf(sampler, outcome'.hop) \notin DOMAIN counts)
        => (outcome'.status = UnseenKeyError /\ outcome'.value = None)]_vars

\* C3: after ObjFreqSampler.fit(G) on a fresh instance, get_weight((p, v))
\* for a non-predicate vertex v of G and any p is the number of distinct
\* edges of G that terminate at v, 0 included.
C3_ObjWeightIsInDegree ==
    (sampler = "ObjFreqSampler" /\ WeighedAfterOneFit
        /\ IsEntityOf(kg, outcome.hop[2]))
    => (outcome.status = "ok"
        /\ outcome.value = IntVal(InDegree(kg, outcome.hop[2])))
\* A weight of 2: two edges end at the hop's object.
C3_Witness ==
    /\ sampler = "ObjFreqSampler" /\ WeighedAfterOneFit
    /\ IsEntityOf(kg, outcome.hop[2])
    /\ InDegree(kg, outcome.hop[2]) = 2
    /\ outcome.value = IntVal(2)

\* C4: after PredFreqSampler.fit(G) on a fresh instance, get_weight((p, o))
\* for a predicate name used in G and any o is the number of predicate
\* vertex occurrences of G with that name.
C4_PredWeightIsEdgeInstances ==
    (sampler = "PredFreqSampler" /\ WeighedAfterOneFit
        /\ IsPredicateOf(kg, outcome.hop[1]))
    => (outcome.status = "ok"
        /\ outcome.value = IntVal(EdgeInstances(kg, outcome.hop[1])))
\* A weight of 2 for one predicate name while another name is used once.
C4_Witness ==
    /\ sampler = "PredFreqSampler" /\ WeighedAfterOneFit
    /\ EdgeInstances(kg, outcome.hop[1]) = 2
    /\ \E n \in Preds : EdgeInstances(kg, n) = 1

\* C5 as stated: after ObjPredFreqSampler.fit(G) on a fresh instance,
\* get_weight((p, o)) for every hop is the number of predicate vertex
\* occurrences of G named p.name whose first forward neighbour is o.name.
C5_PairWeightForEveryHop ==
    (sampler = "ObjPredFreqSampler" /\ WeighedAfterOneFit)
    => (outcome.status = "ok"
        /\ outcome.value = IntVal(PairInstances(kg, outcome.hop[1], outcome.hop[2])))
\* C5 as amended: the same, for the hops with at least one such occurrence
\* in G; a predicate vertex without forward neighbours and the neighbours
\* after the first count for nothing.
C5_PairWeightForRecordedHop ==
    (sampler = "ObjPredFreqSampler" /\ WeighedAfterOneFit
        /\ PairInstances(kg, outcome.hop[1], outcome.hop[2]) > 0)
    => (outcome.status = "ok"
        /\ outcome.value = IntVal(PairInstances(kg, outcome.hop[1], outcome.hop[2])))
\* The hop's pair is recorded by a predicate vertex that has a second forward
\* neighbour as well.
C5_Witness ==
    /\ sampler = "ObjPredFreqSampler" /\ WeighedAfterOneFit
    /\ PairInstances(kg, outcome.hop[1], outcome.hop[2]) > 0
    /\ \E i \in 1..Len(kg) :
          /\ kg[i].predicate /\ kg[i].name = outcome.hop[1]
          /\ Len(kg[i].nbrs) = 2 /\ Head(kg[i].nbrs) = outcome.hop[2]
    /\ outcome.value = IntVal(1)

\* C6: a get_weight call, on any hop and in any state, leaves the table as
\* it was.
C6_GetWeightKeepsTable ==
    [][fitCalls' = fitCalls => counts' = counts]_vars

\* C7: after any sequence of fit calls the table is the one a fresh instance
\* has after a single fit of the last graph.
C7_FitResetsTable ==
    (outcome.op = "fit" /\ outcome.status = "ok")
    => counts = FreshFit(sampler, kg).counts

\* C8 as stated: the table is empty before the first fit; once a fit(G) has
\* completed it is non-empty and has a key for everything in G the strategy
\* keys on.
C8_TableNonEmptyAfterFit ==
    /\ fitCalls = 0 => counts = EmptyTable
    /\ (fitCalls > 0 /\ fitOk) =>
          counts # EmptyTable /\ KeysOf(sampler, kg) \subseteq DOMAIN counts
\* C8 as amended: the table is empty before the first fit; while the most
\* recent fit call fit(G) is a completed one, it has a key for everything in
\* G the strategy keys on, and is non-empty if G has such a key.
C8_TableCoversGraph ==
    /\ fitCalls = 0 => counts = EmptyTable
    /\ (fitCalls > 0 /\ fitOk) =>
          /\ KeysOf(sampler, kg) \subseteq DOMAIN counts
          /\ KeysOf(sampler, kg) # {} => counts # EmptyTable
\* A fitted instance, read since, whose graph has two keys.
C8_Witness ==
    /\ fitCalls > 0 /\ fitOk
    /\ outcome.op = "get_weight"
    /\ Cardinality(KeysOf(sampler, kg)) = 2

\* C9: fit completes without error from every state of the instance.
C9_FitNeverFails ==
    outcome.op = "fit" => outcome.status = "ok"

\* C10: fit on a graph without vertices, on a fresh instance, completes and
\* leaves the table empty, and every get_weight call after it ends in the
\* not-fitted error.
C10_EmptyGraphIsUnfit ==
    (fitCalls = 1 /\ kg = << >>) =>
        /\ fitOk
        /\ counts = EmptyTable
        /\ outcome.op = "get_weight" =>
              outcome.status = NotFittedError /\ outcome.value = None
\* Two get_weight calls in a row after fit on the graph without vertices.
C10_Witness ==
    /\ fitCalls = 1 /\ kg = << >>
    /\ outcome.op = "get_weight"
    /\ outcome.prev = "get_weight"

====
